---- MODULE Spec2Model ----
(***************************************************************************)
(* Beat-synchronised clip scheduler of yessro: the pooled VideoPlayer      *)
(* (player.ts, pooled revision) driven by requestAnimationFrame ticks, an  *)
(* audio clock and asynchronous clip loads.                                *)
(*                                                                         *)
(* Time is counted in whole clock units.  JavaScript runs every handler to *)
(* completion, so each handler is one action.                              *)
(***************************************************************************)
EXTENDS Integers, Sequences, FiniteSets

\* ---------------------------------------------------------------- bounds
MaxPool == 3        \* largest poolSize handed to the constructor
MaxTime == 2        \* the audio clock is followed up to this time
MaxOffset == 1      \* largest config.beatOffset
MaxInterval == 2    \* longest beat interval (60 / bpm)
MaxFailed == 1      \* slots whose load has failed, at any one time
MaxOrphans == 1     \* pending tick callbacks whose id rafId no longer holds
RollScale == 2      \* Math.random() * totalWeight is drawn in units of 1/RollScale
MaxBeats == 6       \* iterations of the buildGrid() loop that are followed
MaxClipCount == 3   \* largest config.clipCount
MaxLaneSwaps == 3   \* successful swaps followed per lane

\* ------------------------------------------------------------ environment
\* Clip identifiers of the manifest.  Clip 1 is an HLS playlist (.m3u8, played
\* through hls.js), clip 2 a plain file played through the video element.
Catalog == <<1, 2>>
IsM3u8(clip) == clip = 1
HlsIsSupported == TRUE

\* config.cutWeights tables: sequences of <<beats, weight>> pairs.
CutTables == { << <<1, 1>>, <<2, 2>> >> }

\* The tables of the sessions that are followed up to init() only: one entry,
\* several entries, equal beat counts in two entries, weights of 1 to 3, and an
\* entry switched off by a weight of 0 in first, middle and last position.
RollTables ==
    { << <<1, 1>> >>,
      << <<1, 1>>, <<2, 2>> >>,
      << <<2, 1>>, <<4, 3>>, <<8, 1>> >>,
      << <<4, 2>>, <<2, 1>>, <<4, 1>> >>,
      << <<1, 0>>, <<2, 1>> >>,
      << <<1, 1>>, <<2, 0>>, <<4, 1>> >>,
      << <<2, 1>>, <<1, 0>> >> }

\* buildGrid(bpm, duration) in whole clock units: beats every interval (60/bpm)
\* from offset (config.beatOffset) while before duration.
RECURSIVE GridFrom(_, _, _)
GridFrom(t, interval, duration) ==
    IF t < duration THEN <<t>> \o GridFrom(t + interval, interval, duration) ELSE <<>>

BuildGrid(offset, interval, duration) == GridFrom(offset, interval, duration)

\* The beat grids handed to init(): the track lasts one unit longer than the clock
\* is followed.
BeatGrids ==
    { BuildGrid(offset, interval, MaxTime + 1) : offset \in 0..MaxOffset, interval \in 1..MaxInterval }

\* The manifests the fetch can return: no clips, or the catalog.
Manifests == { <<>>, Catalog }

\* The catalogs of the sessions that are followed up to init() only.
Catalogs == { <<1>>, <<1, 2>>, <<1, 2, 3>> }

\* The orders [...allClips].sort(() => Math.random() - 0.5) can leave: every
\* permutation.
Without(s, i) == SubSeq(s, 1, i - 1) \o SubSeq(s, i + 1, Len(s))

RECURSIVE Shuffles(_)
Shuffles(s) ==
    IF s = <<>> THEN { <<>> }
    ELSE UNION { { <<s[i]>> \o t : t \in Shuffles(Without(s, i)) } : i \in 1..Len(s) }

\* ------------------------------------------------- IEEE-754 double numbers
\* The beat times of buildGrid() are JavaScript numbers.  A double is held as a
\* sign and a magnitude of hi * 2^30 + lo units of 2^-56 (lo < 2^30); every
\* result is rounded to 53 significant bits, ties to even, as the hardware does.
\* Magnitudes stay below 2^61 units (32.0) and, where they are not whole
\* multiples of the unit, at or above 2^-3.
Two30 == 2^30

Zero == [ neg |-> FALSE, hi |-> 0, lo |-> 0 ]

RECURSIVE BitLen(_)
BitLen(n) == IF n = 0 THEN 0 ELSE 1 + BitLen(n \div 2)

\* Round the magnitude hi * 2^30 + lo to 53 significant bits; sticky: bits below
\* the unit were not all zero.
RoundMag(hi, lo, sticky) ==
    LET d == (IF hi > 0 THEN 30 + BitLen(hi) ELSE BitLen(lo)) - 53
    IN  IF d <= 0 THEN << hi, lo >>
        ELSE LET g == 2^d
                 low == lo % g
                 up == \/ 2 * low > g
                       \/ 2 * low = g /\ (sticky \/ (lo \div g) % 2 = 1)
                 lo2 == lo - low + (IF up THEN g ELSE 0)
             IN  IF lo2 = Two30 THEN << hi + 1, 0 >> ELSE << hi, lo2 >>

MagLess(x, y) == x.hi < y.hi \/ (x.hi = y.hi /\ x.lo < y.lo)

Signed(neg, mag) ==
    [ neg |-> neg /\ mag # << 0, 0 >>, hi |-> mag[1], lo |-> mag[2] ]

\* x + y on doubles.
DAdd(x, y) ==
    IF x.neg = y.neg
    THEN LET lo == x.lo + y.lo
             c == IF lo >= Two30 THEN 1 ELSE 0
         IN  Signed(x.neg, RoundMag(x.hi + y.hi + c, lo - c * Two30, FALSE))
    ELSE LET big == IF MagLess(x, y) THEN y ELSE x
             small == IF MagLess(x, y) THEN x ELSE y
             b == IF big.lo < small.lo THEN 1 ELSE 0
         IN  Signed(big.neg, RoundMag(big.hi - small.hi - b,
                                      big.lo - small.lo + b * Two30, FALSE))

\* x < y on doubles.
DLess(x, y) ==
    IF x.neg # y.neg THEN x.neg
    ELSE IF x.neg THEN MagLess(y, x) ELSE MagLess(x, y)

\* The k leading binary digits of r / d (0 <= r < d) and the remainder left.
RECURSIVE Bits(_, _, _)
Bits(r, d, k) ==
    IF k = 0 THEN << 0, r >>
    ELSE LET p == Bits(r, d, k - 1)
             r2 == 2 * p[2]
         IN  IF r2 >= d THEN << 2 * p[1] + 1, r2 - d >> ELSE << 2 * p[1], r2 >>

Abs(n) == IF n < 0 THEN -n ELSE n

\* The double nearest to n / d (d # 0): a numeric literal or a division.
FromFraction(n, d) ==
    LET hiPart == Bits(Abs(n) % Abs(d), Abs(d), 26)
        loPart == Bits(hiPart[2], Abs(d), 30)
    IN  Signed((n < 0) # (d < 0),
               RoundMag((Abs(n) \div Abs(d)) * 2^26 + hiPart[1], loPart[1], loPart[2] # 0))

\* ------------------------------------------------------------------ state
VARIABLES
    phase,          \* "idle" (no player), "constructed", "inited" once init() has run,
                    \* "started" once start() has
    poolSize,       \* this.poolSize
    pool,           \* this.pool: 0..poolSize-1 -> PoolEntry (empty before init)
    activeIndex,    \* this.activeIndex
    clips,          \* this.clips
    clipCursor,     \* this.clipCursor
    beats,          \* this.beats
    beatIndex,      \* this.beatIndex
    nextCutBeat,    \* this.nextCutBeat
    audioStartTime, \* this.audioStartTime
    running,        \* this.running
    rafLive,        \* the callback named by this.rafId is still pending
    rafOrphans,     \* pending tick callbacks whose id was overwritten in rafId
    cutWeights,     \* config.cutWeights
    clipCount,      \* config.clipCount
    now,            \* audioCtx.currentTime
    stopCalled,     \* history: stop() was called since the last start()
    onSwapCalls,    \* history: how often the onSwap callback has run
    lastOp,         \* history: the handler that ran last
    crossed,        \* history: beat numbers processed by the last tick, in order
    swapLog,        \* history: one entry per swap() call of the last handler
    assigned,       \* history: the clips handed to loadEntry(), in call order
    rolled,         \* history: the sum of all rollCutLength() results so far
    manifest,       \* the clip manifest the session fetched (empty before the fetch)
    playBtnHidden,  \* the play button has class 'hidden'
    loading,        \* the loading element: "hidden", "progress" or "error" (message shown)
    sourceStarted,  \* source.start() was called on the audio buffer source
    analysis,       \* the detectBeats() call: its inputs, locals and result
    buffer,         \* the double-buffer VideoPlayer of src/player.ts: its fields
    lanes,          \* the session's lanes: their marks, players and onSwap wiring
    overlays        \* the canvas overlays: visible, running and rafId of each

vars == << phase, poolSize, pool, activeIndex, clips, clipCursor, beats, beatIndex,
           nextCutBeat, audioStartTime, running, rafLive, rafOrphans, cutWeights,
           clipCount, now, stopCalled, onSwapCalls, lastOp, crossed, swapLog,
           assigned, rolled, manifest, playBtnHidden, loading, sourceStarted,
           analysis, buffer, lanes, overlays >>

\* What the pooled player, the click handler and the beat analysis leave alone.
others == << buffer, lanes, overlays >>

\* The player, its clock and its history.
player == << phase, poolSize, pool, activeIndex, clips, clipCursor, beats, beatIndex,
             nextCutBeat, audioStartTime, running, rafLive, rafOrphans, cutWeights,
             clipCount, now, stopCalled, onSwapCalls, lastOp, crossed, swapLog,
             assigned, rolled, manifest, playBtnHidden, loading, sourceStarted >>

\* The session outside the player: the page, the audio source and the beat
\* analysis.
page == << manifest, playBtnHidden, loading, sourceStarted, analysis >>

Slots == 0..(poolSize - 1)

\* init() has run: the pool exists.
Inited == phase \in { "inited", "started" }

\* start() has run: the session wires pause(), resume() and stop() to the
\* transport controls and to the end of the song together with its call of start().
Started == phase = "started"

Min(a, b) == IF a < b THEN a ELSE b

\* createEntry(): a hidden video element, no HLS session, not ready.
\* clip = 0: no source assigned yet; loading: the completion event of the load
\* the element carries can still arrive; playing: play() was the last of
\* play()/pause() called on the element; stale: completion events still to come
\* from loads that a later loadEntry() on this entry has superseded; sessions:
\* the HLS sessions created for this entry and not destroyed.
CreateEntry ==
    [ visibility |-> "hidden", hls |-> "null", ready |-> FALSE,
      clip |-> 0, loading |-> FALSE, playing |-> FALSE, stale |-> 0, sessions |-> 0 ]

\* ------------------------------------------------------- rollCutLength()
RECURSIVE SumWeights(_)
SumWeights(weights) ==
    IF weights = <<>> THEN 0 ELSE Head(weights)[2] + SumWeights(Tail(weights))

\* The values Math.random() * totalWeight can take, in units of 1/RollScale:
\* 0 <= roll < totalWeight.
Draws(weights) == 0..(RollScale * SumWeights(weights) - 1)

\* Faulty variant: the loop returns only once the remainder is below 0.
RECURSIVE RollLoopStrict(_, _, _)
RollLoopStrict(weights, rest, roll) ==
    IF rest = <<>> THEN weights[1][1]
    ELSE LET r == roll - RollScale * Head(rest)[2]
         IN  IF r < 0 THEN Head(rest)[1] ELSE RollLoopStrict(weights, Tail(rest), r)

RECURSIVE RollLoop(_, _, _)
RollLoop(weights, rest, roll) ==
    IF rest = <<>> THEN weights[1][1]
    ELSE LET r == roll - RollScale * Head(rest)[2]
         IN  IF r <= 0 THEN Head(rest)[1] ELSE RollLoop(weights, Tail(rest), r)

RollCutLength(weights, draw) == RollLoop(weights, weights, draw)

\* The place at which the loop of rollCutLength() returns: the number of the
\* entry whose pass returns (k counts the passes), or 0 when the loop runs off
\* the table and the fallback return is taken.
RECURSIVE RollExit(_, _, _)
RollExit(rest, roll, k) ==
    IF rest = <<>> THEN 0
    ELSE LET r == roll - RollScale * Head(rest)[2]
         IN  IF r <= 0 THEN k ELSE RollExit(Tail(rest), r, k + 1)

\* ------------------------------------------------------------ loadEntry()
UsesHls(clip) == IsM3u8(clip) /\ HlsIsSupported

\* Faulty variant: the previous HLS session is dropped without destroy(), so its
\* MANIFEST_PARSED can still arrive.
LoadEntryKeepsSession(entry, clip) ==
    [ entry EXCEPT !.ready = FALSE,
                   !.hls = IF UsesHls(clip) THEN "live" ELSE "null",
                   !.clip = clip,
                   !.loading = TRUE,
                   !.stale = IF entry.loading /\ entry.hls = "live" THEN @ + 1 ELSE @,
                   !.sessions = @ + (IF UsesHls(clip) THEN 1 ELSE 0) ]

\* loadEntry(): ready = false and a new load.  The load it supersedes can no
\* longer complete: a previous HLS session is destroyed, and assigning the new
\* source (video.src with load(), or attachMedia()) aborts the element's running
\* load together with its queued events.
LoadEntry(entry, clip) ==
    [ entry EXCEPT !.ready = FALSE,
                   !.hls = IF UsesHls(clip) THEN "live" ELSE "null",
                   !.clip = clip,
                   !.loading = TRUE,
                   !.sessions = (IF entry.hls = "live" THEN @ - 1 ELSE @)
                                + (IF UsesHls(clip) THEN 1 ELSE 0) ]

\* ----------------------------------------------------------- advanceClip()
\* The clip advanceClip() returns at the given cursor; the caller adds 1 to the
\* cursor.
\* Faulty variant: the cursor is advanced before it is read.
AdvanceClipSkipsOne(cs, cursor) == cs[((cursor + 1) % Len(cs)) + 1]

\* Faulty variant: past the end of the queue the cursor stays on the last clip.
AdvanceClipClamps(cs, cursor) == cs[Min(cursor, Len(cs) - 1) + 1]

AdvanceClip(cs, cursor) == cs[(cursor % Len(cs)) + 1]

\* -------------------------------------------------------------- swap()
\* s: [pool, activeIndex, clipCursor, beatIndex, nextCutBeat, onSwapCalls, seen,
\*     crossed, swapLog, assigned, rolled], the player's fields while a handler runs.
VisibleSlots(p) == { i \in DOMAIN p : p[i].visibility = "visible" }

\* this.onSwap?.(): the callback reads activeVideo (the slot at activeIndex) and
\* what is on screen at the moment it is called.
OnSwap(s) ==
    [ s EXCEPT !.onSwapCalls = @ + 1,
               !.seen = Append(@, [ active |-> s.activeIndex,
                                    visible |-> VisibleSlots(s.pool) ]) ]

\* Faulty variants of swap(), used to show that the properties below depend on it:
\* without the readiness guard, without hiding the current slot, and calling
\* onSwap before activeIndex is updated.
SwapBodyUnguarded(s) ==
    LET current == s.activeIndex
        nextIndex == (s.activeIndex + 1) % poolSize
        p1 == [s.pool EXCEPT ![current].visibility = "hidden"]
        p2 == [p1 EXCEPT ![nextIndex].visibility = "visible",
                         ![nextIndex].playing = TRUE]
        p3 == [p2 EXCEPT ![current] =
                   LoadEntry(p2[current], AdvanceClip(clips, s.clipCursor))]
    IN  OnSwap([ s EXCEPT !.pool = p3,
                          !.clipCursor = @ + 1,
                          !.assigned = Append(@, AdvanceClip(clips, s.clipCursor)),
                          !.activeIndex = nextIndex ])

SwapBodyKeepsCurrent(s) ==
    LET current == s.activeIndex
        nextIndex == (s.activeIndex + 1) % poolSize
    IN  IF ~s.pool[nextIndex].ready THEN s
        ELSE LET p2 == [s.pool EXCEPT ![nextIndex].visibility = "visible",
                                      ![nextIndex].playing = TRUE]
                 p3 == [p2 EXCEPT ![current] =
                            LoadEntry(p2[current], AdvanceClip(clips, s.clipCursor))]
             IN  OnSwap([ s EXCEPT !.pool = p3,
                                   !.clipCursor = @ + 1,
                                   !.assigned = Append(@, AdvanceClip(clips, s.clipCursor)),
                                   !.activeIndex = nextIndex ])

SwapBodyNotifiesEarly(s) ==
    LET current == s.activeIndex
        nextIndex == (s.activeIndex + 1) % poolSize
    IN  IF ~s.pool[nextIndex].ready THEN s
        ELSE LET p1 == [s.pool EXCEPT ![current].visibility = "hidden"]
                 p2 == [p1 EXCEPT ![nextIndex].visibility = "visible",
                                  ![nextIndex].playing = TRUE]
                 p3 == [p2 EXCEPT ![current] =
                            LoadEntry(p2[current], AdvanceClip(clips, s.clipCursor))]
             IN  [ OnSwap([ s EXCEPT !.pool = p3, !.clipCursor = @ + 1,
                                     !.assigned = Append(@, AdvanceClip(clips, s.clipCursor)) ])
                     EXCEPT !.activeIndex = nextIndex ]

\* Faulty variant: the promoted slot is the one reloaded.
SwapBodyRecyclesPromoted(s) ==
    LET current == s.activeIndex
        nextIndex == (s.activeIndex + 1) % poolSize
    IN  IF ~s.pool[nextIndex].ready THEN s
        ELSE LET p1 == [s.pool EXCEPT ![current].visibility = "hidden"]
                 p2 == [p1 EXCEPT ![nextIndex].visibility = "visible",
                                  ![nextIndex].playing = TRUE]
                 p3 == [p2 EXCEPT ![nextIndex] =
                            LoadEntry(p2[nextIndex], AdvanceClip(clips, s.clipCursor))]
             IN  OnSwap([ s EXCEPT !.pool = p3,
                                   !.clipCursor = @ + 1,
                                   !.assigned = Append(@, AdvanceClip(clips, s.clipCursor)),
                                   !.activeIndex = nextIndex ])

SwapBody(s) ==
    LET current == s.activeIndex
        nextIndex == (s.activeIndex + 1) % poolSize
    IN  IF ~s.pool[nextIndex].ready THEN s
        ELSE LET p1 == [s.pool EXCEPT ![current].visibility = "hidden"]
                 p2 == [p1 EXCEPT ![nextIndex].visibility = "visible",
                                  ![nextIndex].playing = TRUE]
                 p3 == [p2 EXCEPT ![current] =
                            LoadEntry(p2[current], AdvanceClip(clips, s.clipCursor))]
             IN  OnSwap([ s EXCEPT !.pool = p3,
                                   !.clipCursor = @ + 1,
                                   !.assigned = Append(@, AdvanceClip(clips, s.clipCursor)),
                                   !.activeIndex = nextIndex ])

\* swap() as the tick calls it, with a record of the call appended to swapLog:
\* the beat it was made at, the fields before and after, the slots whose entry
\* differs afterwards, whether the load of the former active slot was still
\* pending, the entries of the former active slot and of the slot active
\* afterwards, and what the onSwap calls made by this swap() saw.
Swap(s) ==
    LET t == SwapBody(s)
    IN  [ t EXCEPT !.swapLog = Append(@,
            [ beatNo |-> s.beatIndex,
              from |-> s.activeIndex,
              candidateReady |-> s.pool[(s.activeIndex + 1) % poolSize].ready,
              to |-> t.activeIndex,
              cursorBefore |-> s.clipCursor,
              cursorAfter |-> t.clipCursor,
              changed |-> { i \in DOMAIN s.pool : t.pool[i] # s.pool[i] },
              superseded |-> s.pool[s.activeIndex].loading,
              former |-> t.pool[s.activeIndex],
              promoted |-> t.pool[t.activeIndex],
              seen |-> SubSeq(t.seen, Len(s.seen) + 1, Len(t.seen)) ]) ]

\* -------------------------------------------------------------- tick()
\* The while loop of tick().  Every rollCutLength() call draws its own
\* Math.random(), so the loop has a set of outcomes.  crossed records each beat
\* processed, the countdown left after its decrement and the sum of the cut
\* lengths rolled before it.
\* Faulty variant: one beat per tick at most (an if in place of the while).
TickLoopOnce(s, elapsed) ==
    IF s.beatIndex < Len(beats) /\ elapsed >= beats[s.beatIndex + 1]
    THEN LET s1 == [ s EXCEPT !.beatIndex = @ + 1,
                              !.nextCutBeat = @ - 1,
                              !.crossed = Append(@, [ beatNo |-> s.beatIndex + 1,
                                                      left |-> s.nextCutBeat - 1,
                                                      due |-> s.rolled ]) ]
         IN  IF s1.nextCutBeat <= 0
             THEN { Swap([ s1 EXCEPT !.nextCutBeat = RollCutLength(cutWeights, draw),
                                             !.rolled = @ + RollCutLength(cutWeights, draw) ])
                      : draw \in Draws(cutWeights) }
             ELSE { s1 }
    ELSE { s }

\* Faulty variant: the countdown is reset only when the swap succeeded, so a
\* skipped cut is tried again at the next beat.
RECURSIVE TickLoopRetries(_, _)
TickLoopRetries(s, elapsed) ==
    IF s.beatIndex < Len(beats) /\ elapsed >= beats[s.beatIndex + 1]
    THEN LET s1 == [ s EXCEPT !.beatIndex = @ + 1,
                              !.nextCutBeat = @ - 1,
                              !.crossed = Append(@, [ beatNo |-> s.beatIndex + 1,
                                                      left |-> s.nextCutBeat - 1,
                                                      due |-> s.rolled ]) ]
         IN  IF s1.nextCutBeat <= 0
             THEN IF s1.pool[(s1.activeIndex + 1) % poolSize].ready
                  THEN UNION { TickLoopRetries(
                                 Swap([ s1 EXCEPT !.nextCutBeat = RollCutLength(cutWeights, draw),
                                                  !.rolled = @ + RollCutLength(cutWeights, draw) ]),
                                 elapsed) : draw \in Draws(cutWeights) }
                  ELSE TickLoopRetries(Swap(s1), elapsed)
             ELSE TickLoopRetries(s1, elapsed)
    ELSE { s }

RECURSIVE TickLoop(_, _)
TickLoop(s, elapsed) ==
    IF s.beatIndex < Len(beats) /\ elapsed >= beats[s.beatIndex + 1]
    THEN LET s1 == [ s EXCEPT !.beatIndex = @ + 1,
                              !.nextCutBeat = @ - 1,
                              !.crossed = Append(@, [ beatNo |-> s.beatIndex + 1,
                                                      left |-> s.nextCutBeat - 1,
                                                      due |-> s.rolled ]) ]
         IN  IF s1.nextCutBeat <= 0
             THEN UNION { TickLoop(
                            Swap([ s1 EXCEPT !.nextCutBeat = RollCutLength(cutWeights, draw),
                                             !.rolled = @ + RollCutLength(cutWeights, draw) ]),
                            elapsed) : draw \in Draws(cutWeights) }
             ELSE TickLoop(s1, elapsed)
    ELSE { s }

Elapsed == now - audioStartTime

\* Beats of the grid at or before elapsed time e.
BeatsUpTo(e) == Cardinality({ i \in 1..Len(beats) : beats[i] <= e })

\* The player's fields as a handler finds them, with pool p.
Fields(p) ==
    [ pool |-> p, activeIndex |-> activeIndex, clipCursor |-> clipCursor,
      beatIndex |-> beatIndex, nextCutBeat |-> nextCutBeat,
      onSwapCalls |-> onSwapCalls, seen |-> <<>>, crossed |-> <<>>, swapLog |-> <<>>,
      assigned |-> assigned, rolled |-> rolled ]

\* tick() once the running guard has passed: the beat loop on pool p at the given
\* epoch, then requestAnimationFrame(this.tick), which overwrites rafId; a callback
\* still pending under the old id can no longer be cancelled.
Tick(p, epoch, pendingLive, orphans) ==
    \E t \in TickLoop(Fields(p), now - epoch) :
        /\ pool' = t.pool
        /\ activeIndex' = t.activeIndex
        /\ clipCursor' = t.clipCursor
        /\ beatIndex' = t.beatIndex
        /\ nextCutBeat' = t.nextCutBeat
        /\ onSwapCalls' = t.onSwapCalls
        /\ crossed' = t.crossed
        /\ swapLog' = t.swapLog
        /\ assigned' = t.assigned
        /\ rolled' = t.rolled
        /\ rafLive' = TRUE
        /\ rafOrphans' = IF pendingLive THEN orphans + 1 ELSE orphans

NoLog == /\ crossed' = <<>>
         /\ swapLog' = <<>>

\* ----------------------------------------------------------- detectBeats()
\* Fractions are pairs << numerator, denominator >>.  config.bpmOverride is a
\* fraction, << 0, 1 >> when no override is configured; config.beatOffset is a
\* fraction too.
WindowSize == 1024
HopSize == 512
MinBPM == 60
MaxBPM == 180

\* A mono waveform: length samples at sampleRate; silence when period = 0,
\* otherwise every period-th hop of HopSize samples is at amplitude 1 and the
\* rest is silent.
Amp(w, h) == IF w.period > 0 /\ h % w.period = 0 THEN 1 ELSE 0

Waveforms ==
    { [ sampleRate |-> 8000, length |-> 24000, period |-> 0 ],
      [ sampleRate |-> 8000, length |-> 24000, period |-> 8 ],
      [ sampleRate |-> 8000, length |-> 24000, period |-> 5 ],
      [ sampleRate |-> 8000, length |-> 4000, period |-> 3 ],
      [ sampleRate |-> 8000, length |-> 3000, period |-> 0 ],
      [ sampleRate |-> 8000, length |-> 1000, period |-> 0 ],
      [ sampleRate |-> 44100, length |-> 6615, period |-> 4 ],
      [ sampleRate |-> 8000, length |-> 24000, period |-> 13 ],
      [ sampleRate |-> 2048, length |-> 8192, period |-> 3 ],
      [ sampleRate |-> 4096, length |-> 10240, period |-> 3 ],
      [ sampleRate |-> 3000, length |-> 6000, period |-> 0 ],
      [ sampleRate |-> 8000, length |-> 1024, period |-> 1 ],
      [ sampleRate |-> 8000, length |-> 1536, period |-> 1 ],
      [ sampleRate |-> 8000, length |-> 2047, period |-> 2 ] }

BpmOverrides == { << 0, 1 >>, << 100, 1 >>, << 120, 1 >>, << 1875, 16 >>, << -60, 1 >> }
BeatOffsets == { << 0, 1 >>, << 1, 2 >> }

\* computeOnsets(): the energy of frame i (WindowSize samples from i * HopSize,
\* two hops) times 2, its positive flux, and the flux divided by its maximum, in
\* units of 1/2.
Energy2(w, i) == Amp(w, i) * Amp(w, i) + Amp(w, i + 1) * Amp(w, i + 1)

Flux2(w, i) ==
    IF i = 0 THEN 0
    ELSE IF Energy2(w, i) > Energy2(w, i - 1) THEN Energy2(w, i) - Energy2(w, i - 1) ELSE 0

RECURSIVE MaxOf(_)
MaxOf(seq) ==
    IF seq = <<>> THEN 0
    ELSE LET m == MaxOf(Tail(seq))
         IN  IF Head(seq) > m THEN Head(seq) ELSE m

\* Faulty variant: one frame per whole hop of the signal.
NumFramesWhole(w) == w.length \div HopSize

\* Math.floor((samples.length - windowSize) / hopSize).
NumFrames(w) == (w.length - WindowSize) \div HopSize

\* The index of the last sample the energy loop reads.
LastRead(w) == (NumFrames(w) - 1) * HopSize + (WindowSize - 1)

ComputeOnsets(w) ==
    LET numFrames == NumFrames(w)
    IN  IF numFrames <= 0 THEN <<>>
        ELSE LET flux == [ k \in 1..numFrames |-> Flux2(w, k - 1) ]
                 maxFlux == MaxOf(flux)
             IN  IF maxFlux > 0
                 THEN [ k \in 1..numFrames |-> (2 * flux[k]) \div maxFlux ]
                 ELSE flux

\* estimateBPM(): lags in onset frames for MaxBPM and MinBPM.
MinLag(sampleRate) == (sampleRate * 60) \div (HopSize * MaxBPM)
MaxLag(sampleRate) == -((-(sampleRate * 60)) \div (HopSize * MinBPM))

RECURSIVE CorrSum(_, _, _)
CorrSum(onsets, lag, i) ==
    IF i > Len(onsets) - lag THEN 0
    ELSE onsets[i] * onsets[i + lag] + CorrSum(onsets, lag, i + 1)

\* The lag loop; best: [lag, num, den, any], the best lag so far and its
\* correlation num / den, any = FALSE while bestCorr is still -Infinity.
\* Faulty variant: a lag that equals the best correlation so far replaces it.
RECURSIVE LagLoopLastWins(_, _, _, _)
LagLoopLastWins(onsets, lag, maxLag, best) ==
    IF lag <= maxLag /\ lag < Len(onsets)
    THEN LET corr == CorrSum(onsets, lag, 1)
             count == Len(onsets) - lag
             better == ~best.any \/ corr * best.den >= best.num * count
         IN  LagLoopLastWins(onsets, lag + 1, maxLag,
                     IF better THEN [ lag |-> lag, num |-> corr, den |-> count, any |-> TRUE ]
                     ELSE best)
    ELSE best

RECURSIVE LagLoop(_, _, _, _)
LagLoop(onsets, lag, maxLag, best) ==
    IF lag <= maxLag /\ lag < Len(onsets)
    THEN LET corr == CorrSum(onsets, lag, 1)
             count == Len(onsets) - lag
             better == ~best.any \/ corr * best.den > best.num * count
         IN  LagLoop(onsets, lag + 1, maxLag,
                     IF better THEN [ lag |-> lag, num |-> corr, den |-> count, any |-> TRUE ]
                     ELSE best)
    ELSE best

\* bestLag after the lag loop.
BestLag(onsets, sampleRate) ==
    LagLoop(onsets, MinLag(sampleRate), MaxLag(sampleRate),
            [ lag |-> MinLag(sampleRate), num |-> 0, den |-> 1, any |-> FALSE ]).lag

\* (hopRate / bestLag) * 60, the BPM before the octave correction.
RawBPM(onsets, sampleRate) == << sampleRate * 60, HopSize * BestLag(onsets, sampleRate) >>

\* The two returns that double or halve the BPM.
\* Faulty variant: the boundaries 80 and 160 are corrected too.
OctaveCorrectInclusive(raw) ==
    IF raw[1] <= 80 * raw[2] THEN << 2 * raw[1], raw[2] >>
    ELSE IF raw[1] >= 160 * raw[2] THEN << raw[1], 2 * raw[2] >>
    ELSE raw

OctaveCorrect(raw) ==
    IF raw[1] < 80 * raw[2] THEN << 2 * raw[1], raw[2] >>
    ELSE IF raw[1] > 160 * raw[2] THEN << raw[1], 2 * raw[2] >>
    ELSE raw

EstimateBPM(onsets, sampleRate) == OctaveCorrect(RawBPM(onsets, sampleRate))

\* Math.round(bpm * 10), the reported bpm in tenths.
RoundTenths(bpm) == (20 * bpm[1] + bpm[2]) \div (2 * bpm[2])

\* The condition of the while loop of buildGrid().
\* Faulty variant: a beat at the very end of the track is kept.
GridContinuesInclusive(t, duration) == ~DLess(duration, t)

GridContinues(t, duration) == DLess(t, duration)

\* detectBeats() has not been called.
NotCalled ==
    [ stage |-> "idle", bpmOverride |-> << 0, 1 >>, beatOffset |-> << 0, 1 >>,
      wave |-> [ sampleRate |-> 8000, length |-> 0, period |-> 0 ],
      estimated |-> FALSE, onsets |-> <<>>, bestLag |-> 0, raw |-> << 0, 1 >>,
      bpm |-> << 0, 1 >>, interval |-> Zero,
      duration |-> Zero, t |-> Zero, beats |-> <<>>, reported |-> 0 ]

\* detectBeats() up to the loop of buildGrid(): the BPM, the beat interval
\* 60 / bpm and t = config.beatOffset.
DetectBeats ==
    /\ analysis.stage = "idle"
    /\ LET w == analysis.wave
           override == analysis.bpmOverride[1] # 0
           onsets == IF override THEN <<>> ELSE ComputeOnsets(w)
           bpm == IF override THEN analysis.bpmOverride
                  ELSE EstimateBPM(onsets, w.sampleRate)
       IN  analysis' = [ analysis EXCEPT
               !.stage = "grid",
               !.estimated = ~override,
               !.onsets = onsets,
               !.bestLag = IF override THEN 0 ELSE BestLag(onsets, w.sampleRate),
               !.raw = IF override THEN << 0, 1 >> ELSE RawBPM(onsets, w.sampleRate),
               !.bpm = bpm,
               !.interval = FromFraction(60 * bpm[2], bpm[1]),
               !.duration = FromFraction(w.length, w.sampleRate),
               !.t = FromFraction(analysis.beatOffset[1], analysis.beatOffset[2]) ]
    /\ UNCHANGED player
    /\ UNCHANGED others

\* One pass of the while loop of buildGrid().
GridStep ==
    /\ analysis.stage = "grid"
    /\ GridContinues(analysis.t, analysis.duration)
    /\ Len(analysis.beats) < MaxBeats
    /\ analysis' = [ analysis EXCEPT !.beats = Append(@, analysis.t),
                                     !.t = DAdd(@, analysis.interval) ]
    /\ UNCHANGED player
    /\ UNCHANGED others

\* The loop ends and buildGrid() returns { bpm, beats }.
GridReturn ==
    /\ analysis.stage = "grid"
    /\ ~GridContinues(analysis.t, analysis.duration)
    /\ analysis' = [ analysis EXCEPT !.stage = "done",
                                     !.reported = RoundTenths(analysis.bpm) ]
    /\ UNCHANGED player
    /\ UNCHANGED others

\* ------------------------------------------------------------------ Init
\* ------------------------------------- before the play button is clicked
\* createVideoElement() of the double-buffer player: opacity '0', no source.
\* loaded: loadedmetadata has fired for the clip the element holds.
CreateVideoElement == [ opacity |-> 0, clip |-> 0, loaded |-> FALSE, playing |-> FALSE ]

\* No double-buffer player has been constructed.  cuts is history: one entry
\* per swap() call.
NoBuffer ==
    [ phase |-> "none",
      video |-> [ v \in { "A", "B" } |-> CreateVideoElement ],
      active |-> "A", standby |-> "B",
      clips |-> <<>>, clipIndex |-> 0,
      beats |-> <<>>, beatIndex |-> 0, nextCutBeat |-> 0,
      audioStartTime |-> 0, running |-> FALSE, rafLive |-> FALSE,
      cuts |-> <<>> ]

\* No lane has been created.  mark: the lane has class 'active-lane'; nextReady:
\* the slot the lane's player would promote is ready; swapped, last, shuffles
\* and flashes are history: successful swaps per lane, the lane that swapped
\* last (-1: none yet), and the shuffle() calls per overlay and flash() calls
\* made by the onSwap callbacks.
NoLanes ==
    [ count |-> 0,
      mark |-> <<>>, nextReady |-> <<>>, swapped |-> <<>>,
      last |-> -1, shuffles |-> 0, flashes |-> 0 ]

\* No overlay has been constructed.
NoOverlays == <<>>

\* The page before the play button is clicked: no player exists; the
\* configuration is the environment's.
NoPlayer ==
    /\ phase = "idle"
    /\ poolSize = 0
    /\ pool = <<>>
    /\ activeIndex = 0
    /\ clips = <<>>
    /\ clipCursor = 0
    /\ beats = <<>>
    /\ beatIndex = 0
    /\ nextCutBeat = 0
    /\ audioStartTime = 0
    /\ running = FALSE
    /\ rafLive = FALSE
    /\ rafOrphans = 0
    /\ now = 0
    /\ stopCalled = FALSE
    /\ onSwapCalls = 0
    /\ lastOp = "new"
    /\ crossed = <<>>
    /\ swapLog = <<>>
    /\ assigned = <<>>
    /\ rolled = 0
    /\ manifest = <<>>
    /\ playBtnHidden = FALSE
    /\ loading = "hidden"
    /\ sourceStarted = FALSE
    /\ buffer = NoBuffer
    /\ lanes = NoLanes
    /\ overlays = NoOverlays

Init ==
    /\ NoPlayer
    /\ cutWeights \in CutTables
    /\ clipCount = Len(Catalog)
    /\ analysis = NotCalled

\* ------------------------------------------------- the play button is clicked
\* The click handler up to the manifest check: it fetches the manifest and throws
\* when it is empty, which its catch block reports; otherwise it constructs the
\* player (new VideoPlayer(lane, poolPerLane)).
\* Faulty variant: the handler without the check of clips.length.
PlayClickUnchecked ==
    /\ phase = "idle"
    /\ ~playBtnHidden
    /\ \E fetched \in Manifests, size \in 1..MaxPool :
          /\ manifest' = fetched
          /\ phase' = "constructed"
          /\ poolSize' = size
          /\ playBtnHidden' = TRUE
          /\ loading' = "progress"
    /\ lastOp' = "click"
    /\ NoLog
    /\ UNCHANGED << pool, activeIndex, clips, clipCursor, beats, beatIndex, nextCutBeat,
                    audioStartTime, running, rafLive, rafOrphans, cutWeights, clipCount,
                    now, stopCalled, onSwapCalls, assigned, rolled, sourceStarted, analysis >>
    /\ UNCHANGED others

PlayClickFrom(manifests) ==
    /\ phase = "idle"
    /\ ~playBtnHidden
    /\ \E fetched \in manifests, size \in 1..MaxPool :
          /\ manifest' = fetched
          /\ IF Len(fetched) = 0
             THEN /\ phase' = "idle"
                  /\ poolSize' = poolSize
                  /\ playBtnHidden' = FALSE
                  /\ loading' = "error"
             ELSE /\ phase' = "constructed"
                  /\ poolSize' = size
                  /\ playBtnHidden' = TRUE
                  /\ loading' = "progress"
    /\ lastOp' = "click"
    /\ NoLog
    /\ UNCHANGED << pool, activeIndex, clips, clipCursor, beats, beatIndex, nextCutBeat,
                    audioStartTime, running, rafLive, rafOrphans, cutWeights, clipCount,
                    now, stopCalled, onSwapCalls, assigned, rolled, sourceStarted, analysis >>
    /\ UNCHANGED others

PlayClick == PlayClickFrom(Manifests)

\* ---------------------------------------------------------------- init()
\* Faulty variant: the cursor is not advanced between the slots, so every slot
\* loads the first clip.
InitPoolSameClip(n, cs) ==
    [ i \in 0..(n - 1) |-> LoadEntry(CreateEntry, AdvanceClip(cs, 0)) ]

RECURSIVE InitPool(_, _)
InitPool(n, cs) ==
    IF n = 0 THEN [ i \in {} |-> CreateEntry ]
    ELSE LET p == InitPool(n - 1, cs)
             e == LoadEntry(CreateEntry, AdvanceClip(cs, n - 1))
         IN  [ i \in 0..(n - 1) |-> IF i = n - 1 THEN e ELSE p[i] ]

InitPlayer ==
    /\ phase = "constructed"
    /\ \E grid \in BeatGrids, shuffled \in Shuffles(manifest), draw \in Draws(cutWeights) :
          /\ beats' = grid
          /\ clips' = SubSeq(shuffled, 1, Min(clipCount, Len(shuffled)))
          /\ nextCutBeat' = RollCutLength(cutWeights, draw)
          /\ pool' = [ InitPool(poolSize, clips') EXCEPT ![0].visibility = "visible" ]
    /\ clipCursor' = poolSize
    /\ beatIndex' = 0
    /\ activeIndex' = 0
    /\ phase' = "inited"
    /\ lastOp' = "init"
    /\ NoLog
    /\ assigned' = [ k \in 1..poolSize |-> pool'[k - 1].clip ]
    /\ rolled' = nextCutBeat'
    /\ UNCHANGED << poolSize, audioStartTime, running, rafLive, rafOrphans, cutWeights,
                    clipCount, now, stopCalled, onSwapCalls, page >>
    /\ UNCHANGED others

\* ---------------------------------------------------------------- start()
\* The session calls start(startTime) in the handler run in which it started the
\* audio source at startTime and hid the loading element.
PlayActive(p) == [ p EXCEPT ![activeIndex].playing = TRUE ]

CanSchedule == ~rafLive \/ rafOrphans < MaxOrphans

Start ==
    /\ Inited
    /\ CanSchedule
    /\ \E epoch \in {0} :
          /\ audioStartTime' = epoch
          /\ Tick(PlayActive(pool), epoch, rafLive, rafOrphans)
    /\ running' = TRUE
    /\ phase' = "started"
    /\ stopCalled' = FALSE
    /\ sourceStarted' = TRUE
    /\ loading' = "hidden"
    /\ lastOp' = "start"
    /\ UNCHANGED << poolSize, clips, beats, cutWeights, clipCount, now, manifest,
                    playBtnHidden, analysis >>
    /\ UNCHANGED others

\* ---------------------------------------------------------------- pause()
PauseAll(p) == [ i \in DOMAIN p |-> [ p[i] EXCEPT !.playing = FALSE ] ]

\* Faulty variant: pause() that also rewinds the beat position.
PauseRewinds ==
    /\ Started
    /\ running' = FALSE
    /\ rafLive' = FALSE
    /\ pool' = PauseAll(pool)
    /\ beatIndex' = 0
    /\ lastOp' = "pause"
    /\ NoLog
    /\ UNCHANGED << phase, poolSize, activeIndex, clips, clipCursor, beats,
                    nextCutBeat, audioStartTime, rafOrphans, cutWeights, clipCount, now,
                    stopCalled, onSwapCalls, assigned, rolled, page >>
    /\ UNCHANGED others

Pause ==
    /\ Started
    /\ running' = FALSE
    /\ rafLive' = FALSE
    /\ pool' = PauseAll(pool)
    /\ lastOp' = "pause"
    /\ NoLog
    /\ UNCHANGED << phase, poolSize, activeIndex, clips, clipCursor, beats, beatIndex,
                    nextCutBeat, audioStartTime, rafOrphans, cutWeights, clipCount, now,
                    stopCalled, onSwapCalls, assigned, rolled, page >>
    /\ UNCHANGED others

\* --------------------------------------------------------------- resume()
Resume ==
    /\ Started
    /\ CanSchedule
    /\ Tick(PlayActive(pool), audioStartTime, rafLive, rafOrphans)
    /\ running' = TRUE
    /\ lastOp' = "resume"
    /\ UNCHANGED << phase, poolSize, clips, beats, audioStartTime, cutWeights, clipCount,
                    now, stopCalled, page >>
    /\ UNCHANGED others

\* ----------------------------------------------------------------- stop()
\* hls.destroy() ends the session: its MANIFEST_PARSED event can no longer arrive.
\* entry.hls keeps referring to the destroyed session.
StopEntry(e) ==
    [ e EXCEPT !.playing = FALSE,
               !.hls = IF e.hls = "null" THEN "null" ELSE "destroyed",
               !.loading = IF e.hls = "live" THEN FALSE ELSE e.loading,
               !.sessions = IF e.hls = "live" THEN @ - 1 ELSE @ ]

StopAll(p) == [ i \in DOMAIN p |-> StopEntry(p[i]) ]

Stop ==
    /\ Started
    /\ running' = FALSE
    /\ rafLive' = FALSE
    /\ pool' = StopAll(pool)
    /\ stopCalled' = TRUE
    /\ lastOp' = "stop"
    /\ NoLog
    /\ UNCHANGED << phase, poolSize, activeIndex, clips, clipCursor, beats, beatIndex,
                    nextCutBeat, audioStartTime, rafOrphans, cutWeights, clipCount, now,
                    onSwapCalls, assigned, rolled, page >>
    /\ UNCHANGED others

\* ------------------------------------------- a pending tick callback fires
\* The browser runs one pending requestAnimationFrame callback: the one rafId
\* names, or one whose id was overwritten.  tick() returns at once when not
\* running; otherwise it runs the beat loop and schedules itself again.
\* Faulty variant: tick() without its running guard.
TickFrameUnguarded ==
    /\ Started
    /\ \E orphan \in BOOLEAN :
          /\ IF orphan THEN rafOrphans > 0 ELSE rafLive
          /\ Tick(pool, audioStartTime, IF orphan THEN rafLive ELSE FALSE,
                  IF orphan THEN rafOrphans - 1 ELSE rafOrphans)
    /\ lastOp' = "tick"
    /\ UNCHANGED << phase, poolSize, clips, beats, audioStartTime, running, cutWeights,
                    clipCount, now, stopCalled, page >>
    /\ UNCHANGED others

TickFrame ==
    /\ Started
    /\ \E orphan \in BOOLEAN :
          /\ IF orphan THEN rafOrphans > 0 ELSE rafLive
          /\ LET live == IF orphan THEN rafLive ELSE FALSE
                 orphans == IF orphan THEN rafOrphans - 1 ELSE rafOrphans
             IN  IF ~running
                 THEN /\ rafLive' = live
                      /\ rafOrphans' = orphans
                      /\ NoLog
                      /\ UNCHANGED << pool, activeIndex, clipCursor, beatIndex, nextCutBeat,
                                      onSwapCalls, assigned, rolled >>
                 ELSE Tick(pool, audioStartTime, live, orphans)
    /\ lastOp' = "tick"
    /\ UNCHANGED << phase, poolSize, clips, beats, audioStartTime, running, cutWeights,
                    clipCount, now, stopCalled, page >>
    /\ UNCHANGED others

\* -------------------------------------------------- load completion events
\* onReady of slot i runs: on MANIFEST_PARSED of its HLS session or loadedmetadata
\* of its video element, or (late) on an event of a superseded load.
\* Faulty variant: a completion that also puts the slot on screen.
LoadCompleteShows(i) ==
    /\ Inited
    /\ pool[i].loading
    /\ pool' = [ pool EXCEPT ![i].ready = TRUE, ![i].loading = FALSE, ![i].playing = TRUE,
                             ![i].visibility = "visible" ]
    /\ lastOp' = "loaded"
    /\ NoLog
    /\ UNCHANGED << phase, poolSize, activeIndex, clips, clipCursor, beats, beatIndex,
                    nextCutBeat, audioStartTime, running, rafLive, rafOrphans, cutWeights,
                    clipCount, now, stopCalled, onSwapCalls, assigned, rolled, page >>
    /\ UNCHANGED others

LoadComplete(i) ==
    /\ Inited
    /\ \E late \in BOOLEAN :
          IF late
          THEN /\ pool[i].stale > 0
               /\ pool' = [ pool EXCEPT ![i].ready = TRUE, ![i].playing = TRUE,
                                        ![i].stale = @ - 1 ]
          ELSE /\ pool[i].loading
               /\ pool' = [ pool EXCEPT ![i].ready = TRUE, ![i].loading = FALSE,
                                        ![i].playing = TRUE ]
    /\ lastOp' = "loaded"
    /\ NoLog
    /\ UNCHANGED << phase, poolSize, activeIndex, clips, clipCursor, beats, beatIndex,
                    nextCutBeat, audioStartTime, running, rafLive, rafOrphans, cutWeights,
                    clipCount, now, stopCalled, onSwapCalls, assigned, rolled, page >>
    /\ UNCHANGED others

\* The load of slot i fails (network or decoder error): no handler is registered
\* for it, so the slot stays not ready and its completion never arrives.
FailedSlots(p) == { j \in DOMAIN p : ~p[j].loading /\ ~p[j].ready }

LoadFail(i) ==
    /\ Inited
    /\ pool[i].loading
    /\ Cardinality(FailedSlots(pool)) < MaxFailed
    /\ pool' = [ pool EXCEPT ![i].loading = FALSE ]
    /\ lastOp' = "failed"
    /\ NoLog
    /\ UNCHANGED << phase, poolSize, activeIndex, clips, clipCursor, beats, beatIndex,
                    nextCutBeat, audioStartTime, running, rafLive, rafOrphans, cutWeights,
                    clipCount, now, stopCalled, onSwapCalls, assigned, rolled, page >>
    /\ UNCHANGED others

\* ------------------------------------------------------- the audio clock
ClockAdvance ==
    /\ now < MaxTime
    /\ now' = now + 1
    /\ lastOp' = "clock"
    /\ NoLog
    /\ UNCHANGED << phase, poolSize, pool, activeIndex, clips, clipCursor, beats, beatIndex,
                    nextCutBeat, audioStartTime, running, rafLive, rafOrphans, cutWeights,
                    clipCount, stopCalled, onSwapCalls, assigned, rolled, page >>
    /\ UNCHANGED others

Next ==
    \/ PlayClick
    \/ InitPlayer
    \/ Start
    \/ Pause
    \/ Resume
    \/ Stop
    \/ TickFrame
    \/ \E i \in Slots : LoadComplete(i)
    \/ \E i \in Slots : LoadFail(i)
    \/ ClockAdvance

Spec == Init /\ [][Next]_vars

\* ----------------------------------------- the beat analysis on its own
\* detectBeats() on every waveform, override and offset of the input sets.
InitBeats ==
    /\ NoPlayer
    /\ cutWeights \in CutTables
    /\ clipCount = Len(Catalog)
    /\ \E w \in Waveforms, o \in BpmOverrides, b \in BeatOffsets :
          analysis = [ NotCalled EXCEPT !.wave = w, !.bpmOverride = o, !.beatOffset = b ]

NextBeats ==
    \/ DetectBeats
    \/ GridStep
    \/ GridReturn

SpecBeats == InitBeats /\ [][NextBeats]_vars

\* --------------------------------------------- sessions up to init()
\* Startup for every catalog of Catalogs, every config.clipCount and every
\* table of RollTables, followed through init() and the first load completions.
InitSession ==
    /\ NoPlayer
    /\ cutWeights \in RollTables
    /\ clipCount \in 1..MaxClipCount
    /\ analysis = NotCalled

NextSession ==
    \/ PlayClickFrom(Catalogs)
    \/ InitPlayer
    \/ \E i \in Slots : LoadComplete(i)

SpecSession == InitSession /\ [][NextSession]_vars

\* --------------------------------------------------- frames keep firing
\* A beat at or before the elapsed time has not been processed yet.
BeatOutstanding == beatIndex < Len(beats) /\ Elapsed >= beats[beatIndex + 1]

\* The callback rafId names is pending on a running player with a beat to
\* process: the tick it runs changes the state.
FrameDue == Started /\ running /\ rafLive /\ BeatOutstanding

\* The audio clock advances for as long as it is followed, and the browser runs
\* a pending requestAnimationFrame callback before long: weak fairness of
\* TickFrame, WF_vars(TickFrame), written out with FrameDue as the enabling
\* condition.
FairSpec ==
    /\ Spec
    /\ WF_vars(ClockAdvance)
    /\ ([]<>(~FrameDue) \/ []<><<TickFrame>>_vars)

\* ============================================ the double-buffer VideoPlayer
\* src/player.ts: two stacked video elements, A and B; b is the player's record.
\* nextClip(): the clip at the cursor; the caller advances the cursor.
NextClip(b) == b.clips[(b.clipIndex % Len(b.clips)) + 1]

\* loadClip(video, clipUrl): a new source is assigned and load() called, so the
\* element has no metadata until loadedmetadata fires for it.
LoadClip(el, clip) == [ el EXCEPT !.clip = clip, !.loaded = FALSE ]

\* init() on the player the constructor made, for a catalog order, a beat grid
\* and a draw of rollCutLength().
BufferInit(shuffled, grid, draw) ==
    LET cs == SubSeq(shuffled, 1, Min(clipCount, Len(shuffled)))
        b0 == [ NoBuffer EXCEPT !.phase = "inited",
                                !.clips = cs,
                                !.beats = grid,
                                !.nextCutBeat = RollCutLength(cutWeights, draw) ]
        b1 == [ b0 EXCEPT !.video["A"] = [ LoadClip(@, NextClip(b0)) EXCEPT !.opacity = 1 ],
                          !.clipIndex = @ + 1 ]
    IN  [ b1 EXCEPT !.video["B"] = LoadClip(@, NextClip(b1)),
                    !.clipIndex = @ + 1 ]

\* swap(): the standby element is shown and played, the references are
\* exchanged and the next clip is loaded into the element now hidden.
BufferSwap(b) ==
    LET shown == [ b.video EXCEPT ![b.active].opacity = 0,
                                  ![b.standby].opacity = 1,
                                  ![b.standby].playing = TRUE ]
    IN  [ b EXCEPT !.video = [ shown EXCEPT ![b.active] = LoadClip(@, NextClip(b)) ],
                   !.active = b.standby,
                   !.standby = b.active,
                   !.clipIndex = @ + 1,
                   !.cuts = Append(@, [ beatNo |-> b.beatIndex,
                                        shown |-> b.standby,
                                        loaded |-> b.video[b.standby].loaded ]) ]

\* The while loop of tick(): its outcomes over the draws of rollCutLength().
RECURSIVE BufferTickLoop(_, _)
BufferTickLoop(b, elapsed) ==
    IF b.beatIndex < Len(b.beats) /\ elapsed >= b.beats[b.beatIndex + 1]
    THEN LET b1 == [ b EXCEPT !.beatIndex = @ + 1, !.nextCutBeat = @ - 1 ]
         IN  IF b1.nextCutBeat <= 0
             THEN UNION { BufferTickLoop(
                            BufferSwap([ b1 EXCEPT !.nextCutBeat =
                                                      RollCutLength(cutWeights, draw) ]),
                            elapsed) : draw \in Draws(cutWeights) }
             ELSE BufferTickLoop(b1, elapsed)
    ELSE { b }

\* tick() past its guard: the beat loop, then requestAnimationFrame(this.tick).
BufferTick(b) ==
    { [ t EXCEPT !.rafLive = TRUE ] : t \in BufferTickLoop(b, now - b.audioStartTime) }

\* The click handler of the single-player session, from the manifest check on:
\* new VideoPlayer(videoContainer), init(clips, beats, audioCtx) and, with the
\* audio source started at the current time, start(startTime), in one run.
BufferPlay ==
    /\ buffer.phase = "none"
    /\ \E grid \in BeatGrids, shuffled \in Shuffles(Catalog), draw \in Draws(cutWeights) :
          LET b == BufferInit(shuffled, grid, draw)
              started == [ b EXCEPT !.phase = "started",
                                    !.audioStartTime = now,
                                    !.running = TRUE,
                                    !.video[b.active].playing = TRUE ]
          IN  buffer' \in BufferTick(started)
    /\ UNCHANGED << player, analysis, lanes, overlays >>

\* loadedmetadata fires on element v: the listener of loadClip() seeks and plays.
BufferLoaded(v) ==
    /\ buffer.phase = "started"
    /\ buffer.video[v].clip # 0
    /\ ~buffer.video[v].loaded
    /\ buffer' = [ buffer EXCEPT !.video[v].loaded = TRUE, !.video[v].playing = TRUE ]
    /\ UNCHANGED << player, analysis, lanes, overlays >>

\* The pending tick callback fires.
BufferFrame ==
    /\ buffer.rafLive
    /\ IF ~buffer.running
       THEN buffer' = [ buffer EXCEPT !.rafLive = FALSE ]
       ELSE buffer' \in BufferTick(buffer)
    /\ UNCHANGED << player, analysis, lanes, overlays >>

\* stop(), called when the song has ended.
BufferStop ==
    /\ buffer.phase = "started"
    /\ buffer.running
    /\ buffer' = [ buffer EXCEPT !.running = FALSE,
                                 !.rafLive = FALSE,
                                 !.video = [ v \in { "A", "B" } |->
                                               [ buffer.video[v] EXCEPT !.playing = FALSE ] ] ]
    /\ UNCHANGED << player, analysis, lanes, overlays >>

NextBuffer ==
    \/ BufferPlay
    \/ \E v \in { "A", "B" } : BufferLoaded(v)
    \/ BufferFrame
    \/ BufferStop
    \/ ClockAdvance

SpecBuffer == Init /\ [][NextBuffer]_vars

\* ======================================================= the session's lanes
\* getLaneCount(): 2 on a landscape window, 1 otherwise.
LaneCounts == { 1, 2 }

\* setActiveLane(index): classList.toggle('active-lane', j === index) on every
\* lane j.
\* Faulty variant: the mark is added to the lane and taken from none.
SetActiveLaneAddsOnly(mark, index) == [ j \in DOMAIN mark |-> mark[j] \/ j = index ]

SetActiveLane(mark, index) == [ j \in DOMAIN mark |-> j = index ]

\* The onSwap callback of lane i: setActiveLane(i) and, for lane 0, shuffle() on
\* each overlay and flash() on the strobe.
OnLaneSwap(l, i) ==
    [ l EXCEPT !.mark = SetActiveLane(@, i),
               !.shuffles = IF i = 0 THEN @ + 1 ELSE @,
               !.flashes = IF i = 0 THEN @ + 1 ELSE @ ]

\* The click handler from the lane loop to the onSwap wiring: a lane and an
\* initialised player (no slot ready) per lane, the mark on lane 0, and the
\* callback of each player.
CreateLanes ==
    /\ lanes.count = 0
    /\ \E laneCount \in LaneCounts :
          lanes' = [ NoLanes EXCEPT !.count = laneCount,
                                    !.mark = [ i \in 0..(laneCount - 1) |-> i = 0 ],
                                    !.nextReady = [ i \in 0..(laneCount - 1) |-> FALSE ],
                                    !.swapped = [ i \in 0..(laneCount - 1) |-> 0 ] ]
    /\ UNCHANGED << player, analysis, buffer, overlays >>

\* The load of the slot that lane i's player promotes next completes.
LaneLoadComplete(i) ==
    /\ i < lanes.count
    /\ ~lanes.nextReady[i]
    /\ lanes' = [ lanes EXCEPT !.nextReady[i] = TRUE ]
    /\ UNCHANGED << player, analysis, buffer, overlays >>

\* The player of lane i calls swap() at a cut: it returns at once when the next
\* slot is not ready; otherwise it promotes the slot and calls onSwap.  The slot
\* that is next afterwards may or may not be ready.
LaneSwap(i) ==
    /\ i < lanes.count
    /\ lanes.swapped[i] < MaxLaneSwaps
    /\ IF ~lanes.nextReady[i]
       THEN lanes' = lanes
       ELSE \E ready \in BOOLEAN :
               lanes' = [ OnLaneSwap(lanes, i) EXCEPT !.nextReady[i] = ready,
                                                      !.swapped[i] = @ + 1,
                                                      !.last = i ]
    /\ UNCHANGED << player, analysis, buffer, overlays >>

NextLanes ==
    \/ CreateLanes
    \/ \E i \in 0..1 : LaneLoadComplete(i)
    \/ \E i \in 0..1 : LaneSwap(i)

SpecLanes == Init /\ [][NextLanes]_vars

\* ======================================================= the canvas overlays
\* TrackingOverlay, ThresholdOverlay, EdgeOverlay, MosaicOverlay, ZoomOverlay
\* and TimecodeOverlay share the code of toggle(), destroy() and the draw
\* callback (tick in TimecodeOverlay).
OverlayNames == { "tracking", "threshold", "edge", "mosaic", "zoom", "timecode" }

\* An overlay as its constructor leaves it.  rafLive: the callback rafId names
\* is pending; orphans: pending callbacks rafId no longer names; returned: what
\* the last toggle() returned (empty before the first call).
NewOverlay ==
    [ visible |-> FALSE, running |-> FALSE, rafLive |-> FALSE, orphans |-> 0,
      destroyed |-> FALSE, returned |-> <<>> ]

\* draw() called directly: it returns at once when not running and otherwise
\* draws and stores a new requestAnimationFrame id in rafId.
Draw(ov) ==
    IF ~ov.running THEN ov
    ELSE [ ov EXCEPT !.orphans = IF ov.rafLive THEN @ + 1 ELSE @,
                     !.rafLive = TRUE ]

\* toggle().
\* Faulty variant: switching off clears running and leaves the callback pending.
ToggleBodyLeavesFrame(ov) ==
    LET v == ~ov.visible
        o1 == [ ov EXCEPT !.visible = v, !.returned = <<v>> ]
    IN  IF v /\ ~ov.running THEN Draw([ o1 EXCEPT !.running = TRUE ])
        ELSE IF ~v THEN [ o1 EXCEPT !.running = FALSE ]
        ELSE o1

ToggleBody(ov) ==
    LET v == ~ov.visible
        o1 == [ ov EXCEPT !.visible = v, !.returned = <<v>> ]
    IN  IF v /\ ~ov.running THEN Draw([ o1 EXCEPT !.running = TRUE ])
        ELSE IF ~v THEN [ o1 EXCEPT !.running = FALSE, !.rafLive = FALSE ]
        ELSE o1

\* The click handler constructs the overlays.
CreateOverlays ==
    /\ DOMAIN overlays = {}
    /\ overlays' = [ o \in OverlayNames |-> NewOverlay ]
    /\ UNCHANGED << player, analysis, buffer, lanes >>

\* A key or sidebar button toggles overlay o; the session drops its reference
\* to a destroyed overlay.
Toggle(o) ==
    /\ o \in DOMAIN overlays
    /\ ~overlays[o].destroyed
    /\ overlays' = [ overlays EXCEPT ![o] = ToggleBody(@) ]
    /\ UNCHANGED << player, analysis, buffer, lanes >>

\* A pending draw callback of overlay o fires.
OverlayFrame(o) ==
    /\ o \in DOMAIN overlays
    /\ \E orphan \in BOOLEAN :
          /\ IF orphan THEN overlays[o].orphans > 0 ELSE overlays[o].rafLive
          /\ overlays' = [ overlays EXCEPT ![o] =
                             Draw(IF orphan THEN [ @ EXCEPT !.orphans = @ - 1 ]
                                            ELSE [ @ EXCEPT !.rafLive = FALSE ]) ]
    /\ UNCHANGED << player, analysis, buffer, lanes >>

\* destroy().
Destroy(o) ==
    /\ o \in DOMAIN overlays
    /\ ~overlays[o].destroyed
    /\ overlays' = [ overlays EXCEPT ![o].running = FALSE,
                                     ![o].rafLive = FALSE,
                                     ![o].destroyed = TRUE ]
    /\ UNCHANGED << player, analysis, buffer, lanes >>

NextOverlays ==
    \/ CreateOverlays
    \/ \E o \in OverlayNames : Toggle(o)
    \/ \E o \in OverlayNames : OverlayFrame(o)
    \/ \E o \in OverlayNames : Destroy(o)

SpecOverlays == Init /\ [][NextOverlays]_vars

\* ================================================================ properties
\* The handlers that run the beat loop of tick().
TickOps == { "tick", "start", "resume" }

\* The scheduler fields a cut changes.
sched == << beatIndex, nextCutBeat, activeIndex, clipCursor >>

Skipped(e) == ~e.candidateReady
Succeeded(e) == e.candidateReady

\* C1: a swap() whose candidate slot (activeIndex+1) mod poolSize is not ready is a
\* no-op: activeIndex, every slot's entry (visibility, ready flag, clip, the
\* active slot's too) and clipCursor are unchanged and onSwap is not invoked.
\* Stated for every swap() call of the handler that ran last.
C1_SkippedSwapIsNoOp ==
    \A k \in DOMAIN swapLog :
        Skipped(swapLog[k]) =>
            /\ swapLog[k].to = swapLog[k].from
            /\ swapLog[k].changed = {}
            /\ swapLog[k].cursorAfter = swapLog[k].cursorBefore
            /\ swapLog[k].seen = <<>>

\* C1 witness: a tick has just run in which a swap() found its candidate not ready.
C1_Witness ==
    /\ lastOp = "tick"
    /\ \E k \in DOMAIN swapLog : Skipped(swapLog[k])

\* C2: after init(), in every reachable state exactly one slot is visible and it
\* is the slot at activeIndex, for every poolSize >= 1.
C2_ExactlyActiveVisible ==
    Inited => VisibleSlots(pool) = { activeIndex }

\* C2 witness: a pool of two or more slots whose active slot has moved on and
\* wrapped around to slot 0.
C2_Witness ==
    /\ phase = "started"
    /\ poolSize >= 2
    /\ onSwapCalls >= poolSize
    /\ activeIndex = 0

\* C3 as claimed (any poolSize): a swap() whose candidate is ready moves
\* activeIndex to (activeIndex+1) mod poolSize, leaves the former active slot
\* hidden and loading (ready = false) clips[clipCursor mod clips.length], adds
\* exactly 1 to clipCursor and changes no slot but the former active one and the
\* candidate.
C3_SwapEffects_Claimed ==
    \A k \in DOMAIN swapLog :
        Succeeded(swapLog[k]) =>
            LET e == swapLog[k]
            IN  /\ e.to = (e.from + 1) % poolSize
                /\ e.former.visibility = "hidden"
                /\ ~e.former.ready
                /\ e.former.loading
                /\ e.former.clip = clips[(e.cursorBefore % Len(clips)) + 1]
                /\ e.cursorAfter = e.cursorBefore + 1
                /\ e.changed \subseteq { e.from, e.to }

\* C3 amended: the same for poolSize >= 2, with the candidate left visible; with a
\* single slot the candidate is the active slot itself, which is shown again
\* (visible) while it reloads.
C3_SwapEffects ==
    \A k \in DOMAIN swapLog :
        Succeeded(swapLog[k]) =>
            LET e == swapLog[k]
            IN  /\ e.to = (e.from + 1) % poolSize
                /\ e.former.visibility = (IF poolSize >= 2 THEN "hidden" ELSE "visible")
                /\ ~e.former.ready
                /\ e.former.loading
                /\ e.former.clip = clips[(e.cursorBefore % Len(clips)) + 1]
                /\ e.cursorAfter = e.cursorBefore + 1
                /\ e.changed \subseteq { e.from, e.to }
                /\ e.promoted.visibility = "visible"

\* C3 witness: a handler has just swapped successfully in a pool of three slots,
\* from slot 2 round to slot 0.
C3_Witness ==
    /\ poolSize = 3
    /\ \E k \in DOMAIN swapLog :
          /\ Succeeded(swapLog[k])
          /\ swapLog[k].from = 2
          /\ swapLog[k].to = 0

\* C4: onSwap runs exactly once for each successful swap() and never for a skipped
\* one, inside the swap() call itself; when it runs, activeVideo is the newly
\* promoted slot and that slot is the one visible slot.  In all, onSwap has run
\* once per recycled slot (clipCursor counts the poolSize first loads and one
\* load per successful swap).
C4_OnSwapOncePerSwap ==
    /\ \A k \in DOMAIN swapLog :
          /\ Skipped(swapLog[k]) => swapLog[k].seen = <<>>
          /\ Succeeded(swapLog[k]) =>
                /\ Len(swapLog[k].seen) = 1
                /\ swapLog[k].seen[1].active = (swapLog[k].from + 1) % poolSize
                /\ swapLog[k].seen[1].visible = { (swapLog[k].from + 1) % poolSize }
    /\ Inited => onSwapCalls = clipCursor - poolSize

\* C4 witness: one tick has just made a successful and a skipped swap().
C4_Witness ==
    /\ lastOp = "tick"
    /\ \E j, k \in DOMAIN swapLog : Succeeded(swapLog[j]) /\ Skipped(swapLog[k])

\* Pending tick callbacks.
Pending(live, orphans) == (IF live THEN 1 ELSE 0) + orphans

\* C5: a tick callback that fires while the player is not running processes
\* nothing (beatIndex, nextCutBeat, activeIndex, clipCursor and every slot
\* unchanged, no swap() call) and schedules no further tick; no tick changes the
\* running flag.
C5_TickWhileNotRunning ==
    [][ lastOp' = "tick" =>
          /\ running' = running
          /\ ~running =>
                /\ UNCHANGED << beatIndex, nextCutBeat, activeIndex, clipCursor, pool >>
                /\ swapLog' = <<>>
                /\ crossed' = <<>>
                /\ Pending(rafLive', rafOrphans') = Pending(rafLive, rafOrphans) - 1
                /\ rafLive' => rafLive ]_vars

\* C5 witness: a tick callback has just fired on a player that is not running,
\* with a beat waiting to be processed.
C5_Witness ==
    /\ lastOp = "tick"
    /\ ~running
    /\ beatIndex < BeatsUpTo(Elapsed)

\* C6 as claimed: pause() and resume() themselves leave beatIndex, nextCutBeat,
\* activeIndex and clipCursor unchanged; stated for a started player, for pause()
\* and for a resume() that follows pause() at once, the clock not having advanced
\* in between.
C6_PauseResumeFrame_Claimed ==
    [][ ( /\ phase = "started"
          /\ lastOp' = "pause" \/ (lastOp = "pause" /\ lastOp' = "resume") )
          => UNCHANGED sched ]_vars

\* C6 amended: pause() leaves beatIndex, nextCutBeat, activeIndex and clipCursor
\* unchanged and resume() never rewinds them.  resume() runs one tick at once: it
\* leaves them unchanged when no beat at or before the elapsed time is
\* outstanding, and otherwise processes the outstanding beats, and only those, as
\* the next frame's tick would have (no beat is processed, and no swap attempted,
\* at a beat later than the elapsed time).
C6_PauseResumeFrame ==
    [][ /\ lastOp' = "pause" => UNCHANGED sched
        /\ lastOp' = "resume" =>
              /\ ~BeatOutstanding => UNCHANGED sched /\ swapLog' = <<>>
              /\ beatIndex' >= beatIndex
              /\ beatIndex' = BeatsUpTo(Elapsed)
              /\ Len(crossed') = beatIndex' - beatIndex
              /\ \A k \in DOMAIN swapLog' :
                    /\ swapLog'[k].beatNo > beatIndex
                    /\ beats[swapLog'[k].beatNo] <= Elapsed ]_vars

\* C6 witness: resume() has just run on a paused player (never stopped) that had
\* processed a beat, with beats still to come, and processed nothing.
C6_Witness ==
    /\ lastOp = "resume"
    /\ ~stopCalled
    /\ crossed = <<>>
    /\ 0 < beatIndex
    /\ beatIndex < Len(beats)
    /\ rafOrphans = 0

\* The handler that ran last processed no beat and called no swap().
NoSwapNoLoad == swapLog' = <<>> /\ crossed' = <<>>

\* C7: once stop() has been called, no later pause() or resume() makes a tick
\* process anything (beatIndex, nextCutBeat, activeIndex unchanged, no swap, no
\* slot load) until start() is called again.
C7_StopIsPermanent ==
    [][ (phase = "started" /\ stopCalled /\ lastOp' \in { "pause", "resume", "tick" }) =>
          /\ UNCHANGED sched
          /\ NoSwapNoLoad
          /\ \A i \in Slots : pool'[i].loading => pool[i].loading ]_vars

\* C8: stop() leaves running = false, no tick callback pending, every slot's media
\* paused and every HLS session terminated; a second stop() changes nothing.
StoppedState ==
    /\ ~running
    /\ ~rafLive
    /\ rafOrphans = 0
    /\ \A i \in Slots : ~pool[i].playing /\ pool[i].hls # "live"

C8_StopComplete ==
    [][ lastOp' = "stop" =>
          /\ StoppedState'
          /\ lastOp = "stop" =>
                UNCHANGED << pool, running, rafLive, rafOrphans, beatIndex, nextCutBeat,
                             activeIndex, clipCursor >> ]_vars

\* C9: after every handler that ran the beat loop while running, beatIndex is the
\* number of grid beats at or before the elapsed time; the beats crossed since
\* the previous tick were all processed by that one handler, in grid order; and
\* the swap() calls it made are exactly the crossings at which the countdown
\* expired, in the same order.
Expired(log) == { k \in DOMAIN log : log[k].left <= 0 }

RECURSIVE Ascending(_)
Ascending(set) ==
    IF set = {} THEN <<>>
    ELSE LET m == CHOOSE x \in set : \A y \in set : x <= y
         IN  <<m>> \o Ascending(set \ {m})

C9_AllCrossingsInOneTick ==
    (lastOp \in TickOps /\ running) =>
        /\ beatIndex = BeatsUpTo(Elapsed)
        /\ \A k \in DOMAIN crossed :
              crossed[k].beatNo = beatIndex - Len(crossed) + k
        /\ [ k \in DOMAIN swapLog |-> swapLog[k].beatNo ]
              = [ k \in 1..Cardinality(Expired(crossed)) |->
                      crossed[Ascending(Expired(crossed))[k]].beatNo ]

\* C9 witness: one tick callback has just processed two beats, each with its own
\* swap() call.
C9_Witness ==
    /\ lastOp = "tick"
    /\ Len(crossed) >= 2
    /\ Len(swapLog) >= 2

\* C10: on a running player with poolSize >= 3 and exactly one slot whose load
\* failed for good, every other load having completed, a successful swap stays
\* possible: the swap candidate is ready.  (activeIndex changes only by a successful swap, the
\* candidate is always the slot after activeIndex, and a failed slot is loaded
\* again only when it is recycled as the former active slot; so once the
\* candidate is the failed slot no swap succeeds ever again.)
C10_FailedSlotDoesNotHaltCuts ==
    ( /\ phase = "started"
      /\ running
      /\ poolSize >= 3
      /\ Cardinality(FailedSlots(pool)) = 1
      /\ \A i \in Slots : ~pool[i].loading )
    => pool[(activeIndex + 1) % poolSize].ready

\* C11: clip assignment is cyclic over the session's clip queue.  The k-th clip
\* handed to loadEntry() (k = 0, 1, 2, ..., the poolSize loads of init() and
\* then one per recycle) is clips[k mod clips.length]; clipCursor is the number
\* of assignments made (so it never decreases, the record of assignments only
\* growing) and equals poolSize plus the number of successful swaps; slots i
\* and i + clips.length start with the same clip, and with poolSize >=
\* clips.length every recycle reuses a clip assigned before.
C11_CyclicClipAssignment ==
    Inited =>
        /\ clipCursor = Len(assigned)
        /\ clipCursor = poolSize + onSwapCalls
        /\ \A k \in DOMAIN assigned : assigned[k] = clips[((k - 1) % Len(clips)) + 1]
        /\ \A i, j \in Slots : j = i + Len(clips) => assigned[j + 1] = assigned[i + 1]
        /\ poolSize >= Len(clips) =>
              \A k \in (poolSize + 1)..Len(assigned) :
                  \E h \in 1..(k - 1) : assigned[h] = assigned[k]
        /\ \A k \in DOMAIN swapLog :
              /\ swapLog[k].cursorAfter >= swapLog[k].cursorBefore
              /\ swapLog[k].cursorAfter <= clipCursor

\* C11 witness: three slots over a queue of two clips, after two recycles: slots 0
\* and 2 started with the same clip and the cursor has wrapped round the queue
\* twice.
C11_Witness ==
    /\ poolSize = 3
    /\ Len(clips) = 2
    /\ clipCursor = 5
    /\ assigned[1] = assigned[3]
    /\ assigned[5] = assigned[1]

\* C12: when the manifest is empty, startup fails before any playback starts: no
\* VideoPlayer is created, initialized or started, the audio source is never
\* started, and the startup ends in the error state (error message shown, play
\* button shown again for retry).
C12_EmptyCatalogIsFatal ==
    (lastOp = "click" /\ manifest = <<>>) =>
        /\ phase = "idle"
        /\ pool = <<>>
        /\ ~running
        /\ ~rafLive /\ rafOrphans = 0
        /\ ~sourceStarted
        /\ loading = "error"
        /\ ~playBtnHidden

\* C12 witness: the click handler has just ended on an empty manifest.
C12_Witness ==
    /\ lastOp = "click"
    /\ manifest = <<>>
    /\ loading = "error"

\* C17: a load completion of a slot changes only that slot, from loading to ready
\* (with its media started): activeIndex, clipCursor, beatIndex, nextCutBeat, the
\* running flag, the pending tick callbacks and every other slot are unchanged,
\* and so are the slot's clip, visibility and HLS session; it can arrive
\* whenever the slot is loading, whatever pause(), resume() or stop() did before.
C17_LoadCompletionIsLocal ==
    [][ lastOp' = "loaded" =>
          /\ UNCHANGED << activeIndex, clipCursor, beatIndex, nextCutBeat, running,
                          rafLive, rafOrphans >>
          /\ \E i \in Slots :
                /\ pool[i].loading /\ ~pool[i].ready
                /\ pool'[i].ready /\ ~pool'[i].loading
                /\ pool'[i].clip = pool[i].clip
                /\ pool'[i].visibility = pool[i].visibility
                /\ pool'[i].hls = pool[i].hls
                /\ \A j \in Slots \ {i} : pool'[j] = pool[j] ]_vars

\* C17 witness: the load of a recycled slot has just completed on a paused
\* player, with another slot still loading.
C17_Witness ==
    /\ lastOp = "loaded"
    /\ phase = "started"
    /\ ~running
    /\ onSwapCalls >= 1
    /\ \E i, j \in Slots : pool[i].loading /\ ~pool[j].loading /\ pool[j].ready /\ j # activeIndex

\* C18: for poolSize >= 2, once a swap has succeeded the slot at activeIndex is
\* ready in every reachable state: a slot whose load failed or has not completed
\* is never the presented slot.
C18_ActiveSlotReady ==
    (Inited /\ poolSize >= 2 /\ onSwapCalls >= 1) =>
        /\ pool[activeIndex].ready
        /\ ~pool[activeIndex].loading
        /\ activeIndex \notin FailedSlots(pool)

\* C18 witness: after a successful swap in a pool of three, one slot's load has
\* failed and another is still loading while the presented slot is ready.
C18_Witness ==
    /\ poolSize = 3
    /\ onSwapCalls >= 1
    /\ FailedSlots(pool) # {}
    /\ \E i \in Slots : pool[i].loading
    /\ pool[activeIndex].ready

\* The cut lengths of config.cutWeights.
CutLengths == { cutWeights[k][1] : k \in DOMAIN cutWeights }

\* C19: swap attempts occur exactly at the beat crossings whose 1-based beat
\* number is a cumulative sum of the rolled cut lengths (the roll of init(),
\* then each roll made at a cut).  The countdown is what is left to that sum;
\* the crossing that brings it to 0 makes one swap() call and a fresh roll,
\* whether or not the swap succeeds, and no other crossing does either.
C19_CutsAtCumulativeRolls ==
    Inited =>
        /\ nextCutBeat = rolled - beatIndex
        /\ nextCutBeat >= 1
        /\ \A k \in DOMAIN crossed :
              /\ crossed[k].left = crossed[k].due - crossed[k].beatNo
              /\ crossed[k].left >= 0
              /\ LET nextDue == IF k < Len(crossed) THEN crossed[k + 1].due ELSE rolled
                 IN  IF crossed[k].beatNo = crossed[k].due
                     THEN (nextDue - crossed[k].due) \in CutLengths
                     ELSE nextDue = crossed[k].due
        /\ [ k \in DOMAIN swapLog |-> swapLog[k].beatNo ]
              = LET at == { k \in DOMAIN crossed : crossed[k].beatNo = crossed[k].due }
                IN  [ k \in 1..Cardinality(at) |-> crossed[Ascending(at)[k]].beatNo ]

\* C19 witness: one handler has made a swap() call that was skipped and, a full
\* cut length of two beats later, the next one.
C19_Witness ==
    /\ lastOp \in TickOps
    /\ Len(swapLog) = 2
    /\ Skipped(swapLog[1])
    /\ swapLog[2].beatNo = swapLog[1].beatNo + 2

\* C20: immediately after init() on a non-empty catalog the pool has exactly
\* poolSize slots, every slot is loading (ready = false), slot i loads
\* clips[i mod clips.length], clipCursor = poolSize, beatIndex = 0,
\* activeIndex = 0, and the clip queue has min(clipCount, catalog length) entries
\* taken from distinct positions of the catalog.
C20_StateAfterInit ==
    lastOp = "init" =>
        /\ DOMAIN pool = 0..(poolSize - 1)
        /\ poolSize >= 1
        /\ \A i \in Slots :
              /\ ~pool[i].ready
              /\ pool[i].loading
              /\ pool[i].clip = clips[(i % Len(clips)) + 1]
        /\ clipCursor = poolSize
        /\ beatIndex = 0
        /\ activeIndex = 0
        /\ Len(clips) = Min(clipCount, Len(manifest))
        /\ \E f \in [ DOMAIN clips -> DOMAIN manifest ] :
              /\ \A j, k \in DOMAIN clips : f[j] = f[k] => j = k
              /\ \A k \in DOMAIN clips : clips[k] = manifest[f[k]]

\* C20 witness: init() has just run with three slots on a catalog of three clips
\* with clipCount 2: the queue holds two of the three, not in catalog order, and
\* slot 2 loads the clip of slot 0.
C20_Witness ==
    /\ lastOp = "init"
    /\ poolSize = 3
    /\ Len(manifest) = 3
    /\ clipCount = 2
    /\ clips[1] = manifest[3]
    /\ pool[2].clip = pool[0].clip

\* No load has completed yet: no slot has been recycled (the cursor still stands
\* at the poolSize first loads) and no slot is ready.
NoLoadCompleted == clipCursor = poolSize /\ \A i \in Slots : ~pool[i].ready

\* C21 as claimed: slot 0 is the active, visible slot only once some load has
\* completed.
C21_ActiveAfterFirstLoad_Claimed ==
    (Inited /\ activeIndex = 0 /\ pool[0].visibility = "visible") => ~NoLoadCompleted

\* C21 amended: init() itself makes slot 0 the active, visible slot; as long as
\* no load has completed slot 0 stays the active and the one visible slot, and
\* in a pool of two or more slots no cut takes place (no slot recycled, onSwap
\* never called) while no slot is ready.
C21_ActiveFromInit ==
    Inited =>
        /\ NoLoadCompleted =>
              /\ activeIndex = 0
              /\ VisibleSlots(pool) = { 0 }
              /\ onSwapCalls = 0
        /\ (poolSize >= 2 /\ \A i \in Slots : ~pool[i].ready) => NoLoadCompleted

\* C21 witness: the player is running, a tick has just attempted a cut, and still
\* no load has completed: slot 0 is on screen without being ready.
C21_Witness ==
    /\ lastOp = "tick"
    /\ running
    /\ swapLog # <<>>
    /\ NoLoadCompleted
    /\ pool[0].visibility = "visible"

\* Slot i is recycled by the handler of this step: one of its swap() calls
\* succeeded with slot i as the active slot.
Recycled(i) ==
    \E k \in DOMAIN swapLog' : Succeeded(swapLog'[k]) /\ swapLog'[k].from = i

\* C22: after init() a slot changes state only along the allowed transitions: it
\* becomes ready only by its load completion, out of Loading; it (re-)enters
\* Loading and changes clip only by being recycled in a successful swap(); and a
\* slot that is recycled was Ready or Failed, never still Loading.
C22_SlotTransitions ==
    [][ Inited =>
          \A i \in Slots :
              /\ (~pool[i].ready /\ pool'[i].ready) =>
                    (lastOp' = "loaded" /\ pool[i].loading)
              /\ (~pool[i].loading /\ pool'[i].loading) => Recycled(i)
              /\ pool'[i].clip # pool[i].clip => Recycled(i)
              /\ Recycled(i) => ~pool[i].loading ]_vars

\* Every beat of the grid has been processed.
GridDone == Inited /\ beatIndex = Len(beats)

\* C23: beatIndex never decreases and stays within 0..beats.length; the beat loop
\* of a tick ends, having processed consecutive beats, each once; while the
\* player stays running, with frames firing and the clock passing the last
\* beat, beatIndex reaches beats.length; from then on a tick changes neither the
\* scheduler fields nor any slot.
C23_BeatIndexProgress ==
    /\ [](Inited =>
            /\ beatIndex \in 0..Len(beats)
            /\ Len(crossed) <= beatIndex
            /\ \A k \in DOMAIN crossed : crossed[k].beatNo = beatIndex - Len(crossed) + k)
    /\ [][ Inited =>
             /\ beatIndex' >= beatIndex
             /\ (beatIndex = Len(beats) /\ lastOp' = "tick") =>
                   UNCHANGED << sched, pool >> ]_vars
    /\ []<>(~running \/ GridDone)

\* C23 witness: a frame's tick has just run on a running player whose beats were
\* all processed before, after at least one cut.
C23_Witness ==
    /\ GridDone
    /\ running
    /\ lastOp = "tick"
    /\ crossed = <<>>
    /\ onSwapCalls >= 1

\* The cumulative weight of the first k entries, in units of 1/RollScale.
Cumulative(weights, k) == RollScale * SumWeights(SubSeq(weights, 1, k))

\* C24: with all weights positive, for every draw r in [0, total) rollCutLength()
\* returns the beat count of the first entry whose cumulative weight is >= r; the
\* result is a beat count of the table, and the fallback return after the loop is
\* never taken.  The countdown init() rolls is a beat count of the table.
C24_FirstCumulativeEntry ==
    /\ \A draw \in Draws(cutWeights) :
          LET first == CHOOSE k \in DOMAIN cutWeights :
                          /\ Cumulative(cutWeights, k) >= draw
                          /\ \A j \in 1..(k - 1) : Cumulative(cutWeights, j) < draw
          IN  /\ RollCutLength(cutWeights, draw) = cutWeights[first][1]
              /\ RollExit(cutWeights, draw, 1) = first
              /\ RollCutLength(cutWeights, draw) \in CutLengths
    /\ lastOp = "init" => nextCutBeat \in CutLengths

\* C24 witness: init() has just rolled the last entry of a table of three
\* entries, where the draw lies above the cumulative weight of the first two.
C24_Witness ==
    /\ lastOp = "init"
    /\ Len(cutWeights) = 3
    /\ \A k \in 1..3 : cutWeights[k][2] > 0
    /\ nextCutBeat = cutWeights[3][1]
    /\ nextCutBeat \notin { cutWeights[1][1], cutWeights[2][1] }

\* The entries of the table switched off by a weight of 0.
ZeroWeighted == { k \in DOMAIN cutWeights : cutWeights[k][2] = 0 }

\* C33: rollCutLength() never returns at an entry whose weight is 0, for every
\* draw r in [0, total), r = 0 included, and wherever the entry stands in the
\* table; the countdown init() rolls is not the beat count of such an entry.
C33_ZeroWeightNeverRolled ==
    lastOp = "init" =>
        /\ \A draw \in Draws(cutWeights) : RollExit(cutWeights, draw, 1) \notin ZeroWeighted
        /\ \A k \in ZeroWeighted : nextCutBeat # cutWeights[k][1]

\* C28: whatever the sequence of start(), pause(), resume() and stop() calls, at
\* most one tick callback is pending at any time, so that right after pause() or
\* stop() none is pending.
C28_SingleFramePending ==
    /\ Pending(rafLive, rafOrphans) <= 1
    /\ lastOp \in { "pause", "stop" } => Pending(rafLive, rafOrphans) = 0

\* C29: once pause() or stop() has been called, and until resume() or start(),
\* no slot's media is playing: a load completion that arrives meanwhile records
\* readiness without starting playback.
C29_NothingPlaysWhileHalted ==
    (Started /\ ~running) => \A i \in Slots : ~pool[i].playing

\* C30: a slot is ready only for the clip it is assigned: a ready slot's own load
\* has completed, no completion of a superseded load is still to come, and the
\* slot a swap() promotes (in a pool of two or more) is ready by its own load.
C30_ReadyMeansCurrentLoad ==
    Inited =>
        /\ \A i \in Slots :
              /\ pool[i].ready => ~pool[i].loading
              /\ pool[i].stale = 0
        /\ \A k \in DOMAIN swapLog :
              (Succeeded(swapLog[k]) /\ poolSize >= 2) =>
                  /\ swapLog[k].promoted.ready
                  /\ ~swapLog[k].promoted.loading

\* C30 witness: a load has just been superseded: a swap() recycled the former
\* active slot while its load was pending, and the slot is not ready.
C30_Witness ==
    /\ lastOp \in TickOps
    /\ \E k \in DOMAIN swapLog :
          /\ Succeeded(swapLog[k])
          /\ swapLog[k].superseded
          /\ ~swapLog[k].former.ready
          /\ ~pool[swapLog[k].from].ready
          /\ pool[swapLog[k].from].loading

\* The swap() calls of the handler that ran last that went through: they
\* recycled a slot.
Successes == { k \in DOMAIN swapLog : swapLog[k].cursorAfter > swapLog[k].cursorBefore }

\* C31 as claimed: in one tick at most poolSize - 1 swaps succeed.
C31_SwapsPerTick_Claimed ==
    Inited => Cardinality(Successes) <= poolSize - 1

\* C31 amended: in one tick at most poolSize - 1 swaps succeed in a pool of two
\* or more slots, and at most one in a pool of a single slot, which is promoted
\* and recycled at once; every slot recycled in the tick is not ready when the
\* tick ends.
C31_SwapsPerTick ==
    Inited =>
        /\ Cardinality(Successes) <= (IF poolSize = 1 THEN 1 ELSE poolSize - 1)
        /\ \A k \in Successes : ~pool[swapLog[k].from].ready

\* C31 witness: one tick of a pool of three slots has made three swap() calls:
\* two succeeded and the third found the slot recycled first not ready.
C31_Witness ==
    /\ lastOp \in TickOps
    /\ poolSize = 3
    /\ Len(swapLog) = 3
    /\ Successes = { 1, 2 }
    /\ swapLog[3].from = 2

\* The HLS sessions of the pool that have not been destroyed.
RECURSIVE LiveSessions(_, _)
LiveSessions(p, n) == IF n = 0 THEN 0 ELSE p[n - 1].sessions + LiveSessions(p, n - 1)

\* C32: a slot holds at most one HLS session that is not destroyed, the one
\* entry.hls refers to: loadEntry() destroys the previous session before it
\* creates the next; the pool never holds more than poolSize live sessions; and
\* when stop() returns none is left.
C32_OneSessionPerSlot ==
    Inited =>
        /\ \A i \in Slots :
              /\ pool[i].sessions \in { 0, 1 }
              /\ pool[i].sessions = 1 <=> pool[i].hls = "live"
        /\ LiveSessions(pool, poolSize) <= poolSize
        /\ lastOp = "stop" => LiveSessions(pool, poolSize) = 0

\* C32 witness: in a pool of two slots a swap() has just recycled slot 0, whose
\* first clip was streamed over HLS, with an HLS clip again; its first session
\* is gone and the second is live.
C32_Witness ==
    /\ lastOp \in TickOps
    /\ poolSize = 2
    /\ \E k \in Successes : swapLog[k].from = 0
    /\ UsesHls(assigned[1])
    /\ UsesHls(pool[0].clip)
    /\ pool[0].sessions = 1

\* C34: with every beat count of the table at least 1, the countdown
\* nextCutBeat is at least 1 (and a beat count's worth at most) after init() and
\* after every handler that ran tick(); two swap attempts never fall on the same
\* beat crossing: within a tick their beat numbers strictly increase, and the
\* next attempt is due at a beat not yet crossed.
C34_CountdownStaysPositive ==
    (Inited /\ \A k \in DOMAIN cutWeights : cutWeights[k][1] >= 1) =>
        /\ nextCutBeat >= 1
        /\ \E k \in DOMAIN cutWeights : nextCutBeat <= cutWeights[k][1]
        /\ \A j, k \in DOMAIN swapLog : j < k => swapLog[j].beatNo < swapLog[k].beatNo
        /\ \A k \in DOMAIN swapLog : swapLog[k].beatNo <= beatIndex
        /\ rolled > beatIndex
        /\ \A k \in DOMAIN crossed :
              Cardinality({ j \in DOMAIN swapLog : swapLog[j].beatNo = crossed[k].beatNo }) <= 1

\* C34 witness: one tick crossed two beats and attempted a swap at each, the
\* first after a roll of one beat; the countdown it leaves is two beats.
C34_Witness ==
    /\ lastOp \in TickOps
    /\ Len(crossed) = 2
    /\ Len(swapLog) = 2
    /\ swapLog[2].beatNo = swapLog[1].beatNo + 1
    /\ nextCutBeat = 2

\* C35: in the double-buffer player a beat cut never presents an element whose
\* clip load has not completed: every swap() that made the standby element
\* visible found its metadata loaded.
C35_CutPresentsLoadedElement ==
    \A k \in DOMAIN buffer.cuts : buffer.cuts[k].loaded

\* The lanes that carry the 'active-lane' mark.
Marked == { i \in DOMAIN lanes.mark : lanes.mark[i] }

C37_DrawLoopFollowsVisibility ==
    \A o \in DOMAIN overlays :
        /\ overlays[o].orphans = 0
        /\ ~overlays[o].destroyed =>
              /\ overlays[o].running <=> overlays[o].visible
              /\ overlays[o].rafLive <=> overlays[o].visible
              /\ overlays[o].returned \in { <<>>, <<overlays[o].visible>> }
        /\ overlays[o].destroyed => ~overlays[o].running /\ ~overlays[o].rafLive

\* C37 witness: the tracking overlay is on with its callback pending, the
\* threshold overlay has been switched off again, and the timecode overlay was
\* destroyed while it was on.
C37_Witness ==
    /\ DOMAIN overlays = OverlayNames
    /\ overlays["tracking"].visible
    /\ overlays["tracking"].rafLive
    /\ overlays["tracking"].returned = <<TRUE>>
    /\ overlays["threshold"].returned = <<FALSE>>
    /\ ~overlays["threshold"].destroyed
    /\ ~overlays["threshold"].rafLive
    /\ overlays["timecode"].destroyed
    /\ overlays["timecode"].visible

\* ------------------------------------------------- beat analysis properties
\* The doubles of config.beatOffset and of 60 / bpm for the call's BPM.
OffsetOf(a) == FromFraction(a.beatOffset[1], a.beatOffset[2])
SpacingOf(a) == FromFraction(60 * a.bpm[2], a.bpm[1])

\* No override was configured and the onset series is too short for any lag to
\* be evaluated.
TooShort(a) ==
    /\ a.stage # "idle"
    /\ a.estimated
    /\ Len(a.onsets) < MinLag(a.wave.sampleRate)

\* C13: with no BPM override and an onset series that is empty or shorter than
\* minLag, tempo estimation reports a failure: no BPM is chosen and no beat grid
\* is built or returned.
C13_InsufficientDataIsReported ==
    TooShort(analysis) =>
        /\ analysis.bpm[1] = 0
        /\ analysis.stage = "failed"

C15_OverrideGridExact ==
    /\ (analysis.stage # "idle" /\ analysis.bpmOverride[1] # 0) =>
          /\ ~analysis.estimated
          /\ analysis.onsets = <<>>
          /\ analysis.bpm = analysis.bpmOverride
    /\ ( /\ analysis.stage = "done"
         /\ analysis.bpmOverride = << 100, 1 >>
         /\ analysis.beatOffset = << 1, 2 >>
         /\ analysis.duration = FromFraction(3, 1) ) =>
          analysis.beats = << FromFraction(1, 2), FromFraction(11, 10), FromFraction(17, 10),
                              FromFraction(23, 10), FromFraction(29, 10) >>

\* C16: detectBeats() terminates for every waveform and every BPM override:
\* every pass of the beat-grid loop moves t forward, towards the end of the
\* track that ends the loop.
C16_GridLoopAdvances ==
    (analysis.stage = "grid" /\ analysis.beats # <<>>) =>
        DLess(analysis.beats[Len(analysis.beats)], analysis.t)

\* The tempo was estimated from the waveform (no override).
Estimated(a) == a.stage # "idle" /\ a.estimated

\* Fractions with positive denominators compared: x < y, and x = y (equal in
\* lowest terms).
FracLess(x, y) == x[1] * y[2] < y[1] * x[2]
RECURSIVE Gcd(_, _)
Gcd(a, b) == IF b = 0 THEN a ELSE Gcd(b, a % b)
Lowest(x) == << x[1] \div Gcd(x[1], x[2]), x[2] \div Gcd(x[1], x[2]) >>
FracEq(x, y) == Lowest(x) = Lowest(y)

\* C25: the octave correction is one pass with strict boundaries: a raw BPM below
\* 80 is doubled, one above 160 is halved, and one from 80 to 160, both included,
\* is returned unchanged; the result is not corrected again, whatever it is.
C25_OctaveCorrectionOnce ==
    Estimated(analysis) =>
        LET raw == analysis.raw
            bpm == analysis.bpm
        IN  /\ FracLess(raw, << 80, 1 >>) => FracEq(bpm, << 2 * raw[1], raw[2] >>)
            /\ FracLess(<< 160, 1 >>, raw) => FracEq(<< 2 * bpm[1], bpm[2] >>, raw)
            /\ (~FracLess(raw, << 80, 1 >>) /\ ~FracLess(<< 160, 1 >>, raw)) => FracEq(bpm, raw)

\* C25 witness: the raw BPM is exactly 160 and is the BPM detectBeats() uses.
C25_Witness ==
    /\ Estimated(analysis)
    /\ FracEq(analysis.raw, << 160, 1 >>)
    /\ FracEq(analysis.bpm, << 160, 1 >>)

\* The lags the loop of estimateBPM() evaluates, and the correlation of a lag as
\* the fraction sum / count.
Lags(a) ==
    { l \in MinLag(a.wave.sampleRate)..MaxLag(a.wave.sampleRate) : l < Len(a.onsets) }
Corr(a, l) == << CorrSum(a.onsets, l, 1), Len(a.onsets) - l >>

\* C26: the estimator evaluates the integer lags from minLag to maxLag that are
\* smaller than the length of the onset series, and bestLag is the one among
\* them whose autocorrelation, divided by the number of overlapping pairs, is
\* largest; of several lags at the maximum it is the lowest.
C26_BestLagIsFirstMaximum ==
    (Estimated(analysis) /\ Lags(analysis) # {}) =>
        /\ analysis.bestLag \in Lags(analysis)
        /\ \A l \in Lags(analysis) :
              /\ ~FracLess(Corr(analysis, analysis.bestLag), Corr(analysis, l))
              /\ l < analysis.bestLag =>
                    FracLess(Corr(analysis, l), Corr(analysis, analysis.bestLag))

\* C26 witness: two lags share the largest correlation, which is not 0, and the
\* lower one was selected, above minLag.
C26_Witness ==
    /\ Estimated(analysis)
    /\ analysis.bestLag > MinLag(analysis.wave.sampleRate)
    /\ Corr(analysis, analysis.bestLag)[1] > 0
    /\ \E l \in Lags(analysis) :
          /\ l > analysis.bestLag
          /\ FracEq(Corr(analysis, l), Corr(analysis, analysis.bestLag))

\* The largest flux of the waveform before it is normalised.
MaxFlux(w) == MaxOf([ k \in 1..NumFrames(w) |-> Flux2(w, k - 1) ])

\* C27: for a signal of N samples the onset series has floor((N - 1024) / 512)
\* entries, none when that is <= 0; the last sample read lies inside the signal;
\* entry 0 is 0; every entry lies in 0..1 (0..2 in units of 1/2); and when the
\* largest flux is 0 every entry is 0, the division being skipped.
C27_OnsetSeriesShape ==
    Estimated(analysis) =>
        LET w == analysis.wave
            o == analysis.onsets
            n == (w.length - 1024) \div 512
        IN  /\ Len(o) = (IF n <= 0 THEN 0 ELSE n)
            /\ Len(o) > 0 =>
                  /\ LastRead(w) < w.length
                  /\ o[1] = 0
                  /\ MaxFlux(w) = 0 => \A k \in DOMAIN o : o[k] = 0
            /\ \A k \in DOMAIN o : o[k] \in 0..2

\* C27 witness: a signal whose length is not a multiple of the hop, with onsets
\* that reach 1, and the last window ending before the end of the signal.
C27_Witness ==
    /\ Estimated(analysis)
    /\ analysis.wave.length % HopSize # 0
    /\ Len(analysis.onsets) = 5
    /\ \E k \in DOMAIN analysis.onsets : analysis.onsets[k] = 2
    /\ LastRead(analysis.wave) < analysis.wave.length - 1

====
